---- MODULE Spec2Model ----
(***************************************************************************)
(* Model of lesson7_files/dashboard.py: the formatting helpers             *)
(* (fmt_compact, trend_badge, make_y_ticks), the cached base-data load and *)
(* the top-to-bottom script run that Streamlit repeats on every change of  *)
(* the year / month select boxes.                                          *)
(*                                                                         *)
(* Numbers.  Python floats are modelled as exact rationals n/d in lowest   *)
(* terms (d > 0); None and NaN are separate kinds of value.  Binary        *)
(* rounding error of IEEE doubles is not modelled.                         *)
(***************************************************************************)
EXTENDS Integers, Sequences, FiniteSets, TLC

VARIABLES
    fn,              \* helper under call: "fmt_compact", "trend_badge", "make_y_ticks", "none"
    args,            \* the helper call's arguments
    pc,              \* "ready" before the helper call, "returned" after it
    ret,             \* the helper call's return value
    disk,            \* rows of the sales table as the loaders would produce them
    cache,           \* the st.cache_data entry of get_base_data
    loads,           \* how many times the body of get_base_data has run
    analysis_year,   \* value of the Year select box in the last run
    analysis_month,  \* value of the Month select box in the last run (0 = "All Months")
    out              \* what the last script run computed

vars == <<fn, args, pc, ret, disk, cache, loads, analysis_year, analysis_month, out>>

helperVars == <<fn, args, pc, ret>>
dashVars == <<disk, cache, loads, analysis_year, analysis_month, out>>

----------------------------------------------------------------------------
(* Bounds of the model *)

MaxMantissa == 50      \* fmt_compact inputs are m * 10^e / 10, |m| <= MaxMantissa
MaxExp10 == 6          \* ... with 0 <= e <= MaxExp10
MaxTrendK == 11        \* trend_badge inputs are 10*k/q, |k| <= MaxTrendK
MaxTickMantissa == 12  \* make_y_ticks maxima are m * 10^e / 10, -2 <= m <= MaxTickMantissa
MaxTickExp10 == 6      \* ... with 0 <= e <= MaxTickExp10
MaxN == 6              \* make_y_ticks tick counts 0 .. MaxN
MaxOrders == 2         \* orders in the data set

----------------------------------------------------------------------------
(* Values: None, NaN and rationals *)

Abs(i) == IF i < 0 THEN -i ELSE i

RECURSIVE GCD(_, _)
GCD(a, b) == IF b = 0 THEN a ELSE GCD(b, a % b)

RECURSIVE Pow10(_)
Pow10(k) == IF k = 0 THEN 1 ELSE 10 * Pow10(k - 1)

None == [kind |-> "None", n |-> 0, d |-> 1]
NaN == [kind |-> "NaN", n |-> 0, d |-> 1]

\* the float n/d, in lowest terms
Num(n, d) ==
    LET g == GCD(Abs(n), Abs(d))
        s == IF d < 0 THEN -1 ELSE 1
    IN  [kind |-> "num", n |-> s * (n \div g), d |-> s * (d \div g)]

Int2Num(i) == Num(i, 1)

RAdd(a, b) == Num(a.n * b.d + b.n * a.d, a.d * b.d)
RSub(a, b) == Num(a.n * b.d - b.n * a.d, a.d * b.d)
RMul(a, b) == Num(a.n * b.n, a.d * b.d)
RDiv(a, b) == Num(a.n * b.d, a.d * b.n)
RAbs(a) == Num(Abs(a.n), a.d)
RLt(a, b) == a.n * b.d < b.n * a.d
RLe(a, b) == a.n * b.d <= b.n * a.d
REq(a, b) == a.n * b.d = b.n * a.d
RFloor(a) == a.n \div a.d
RCeil(a) == -((-a.n) \div a.d)

\* pd.isna(x): true of None and of NaN
isna(x) == x.kind \in {"None", "NaN"}

----------------------------------------------------------------------------
(* Python's fixed-point float formatting, f"{x:.<digits>f}" *)

RECURSIVE ZeroPad(_, _)
ZeroPad(i, width) ==
    IF width = 0 THEN ""
    ELSE ZeroPad(i \div 10, width - 1) \o ToString(i % 10)

\* round-half-even to `digits` decimals; a negative value keeps its sign even
\* when it rounds to zero ("-0")
FormatFixed(x, digits) ==
    IF x.kind = "NaN" THEN "nan"
    ELSE
    LET p == Pow10(digits)
        scaled == Abs(x.n) * p
        q0 == scaled \div x.d
        r == scaled % x.d
        q == IF 2 * r > x.d THEN q0 + 1
             ELSE IF 2 * r = x.d THEN q0 + (q0 % 2)
             ELSE q0
    IN  (IF x.n < 0 THEN "-" ELSE "")
        \o ToString(q \div p)
        \o (IF digits > 0 THEN "." \o ZeroPad(q % p, digits) ELSE "")

----------------------------------------------------------------------------
(* Helpers *)

Million == Int2Num(1000000)
Thousand == Int2Num(1000)

\* the million tier taken from `v > 1_000_000`
fmt_compact_gt(v) ==
    IF v.kind = "num" /\ RLt(Million, RAbs(v)) THEN
        LET m == RDiv(v, Million)
        IN  IF m.d # 1 THEN "$" \o FormatFixed(m, 1) \o "M"
            ELSE "$" \o FormatFixed(m, 0) \o "M"
    ELSE IF v.kind = "num" /\ RLe(Thousand, RAbs(v)) THEN
        LET k == RDiv(v, Thousand)
        IN  "$" \o FormatFixed(k, 0) \o "K"
    ELSE "$" \o FormatFixed(v, 0)

\* the tiers taken from v instead of abs(v)
fmt_compact_no_abs(v) ==
    IF v.kind = "num" /\ RLe(Million, v) THEN
        LET m == RDiv(v, Million)
        IN  IF m.d # 1 THEN "$" \o FormatFixed(m, 1) \o "M"
            ELSE "$" \o FormatFixed(m, 0) \o "M"
    ELSE IF v.kind = "num" /\ RLe(Thousand, v) THEN
        LET k == RDiv(v, Thousand)
        IN  "$" \o FormatFixed(k, 0) \o "K"
    ELSE "$" \o FormatFixed(v, 0)

fmt_compact(v) ==
    IF v.kind = "num" /\ RLe(Million, RAbs(v)) THEN
        LET m == RDiv(v, Million)
        IN  IF m.d # 1 THEN "$" \o FormatFixed(m, 1) \o "M"
            ELSE "$" \o FormatFixed(m, 0) \o "M"
    ELSE IF v.kind = "num" /\ RLe(Thousand, RAbs(v)) THEN
        LET k == RDiv(v, Thousand)
        IN  "$" \o FormatFixed(k, 0) \o "K"
    ELSE "$" \o FormatFixed(v, 0)

GREY == "#6b7280"
GREEN == "#16a34a"
RED == "#dc2626"
\* the arrow and dash characters, written as their HTML entities
UP == "&uarr;"
DOWN == "&darr;"
DASH == "&mdash;"

Span(color, text) == "<span style=\"color:" \o color \o "\">" \o text \o "</span>"

NoData == Span(GREY, DASH)

\* without the guard on current
trend_badge_no_current_check(current, previous, lower_is_better) ==
    IF previous.kind = "None" \/ isna(previous) \/ previous.n = 0 THEN NoData
    ELSE
    LET pct == RMul(RDiv(RSub(current, previous), RAbs(previous)), Int2Num(100))
        positive_outcome == IF lower_is_better THEN pct.n < 0 ELSE pct.n > 0
        color == IF positive_outcome THEN GREEN ELSE RED
        arrow == IF pct.n > 0 THEN UP ELSE DOWN
    IN  Span(color, arrow \o " " \o FormatFixed(RAbs(pct), 2) \o "%")

\* dividing by previous instead of abs(previous)
trend_badge_no_abs(current, previous, lower_is_better) ==
    IF previous.kind = "None" \/ isna(previous) \/ previous.n = 0 THEN NoData
    ELSE IF current.kind = "None" \/ isna(current) THEN NoData
    ELSE
    LET pct == RMul(RDiv(RSub(current, previous), previous), Int2Num(100))
        positive_outcome == IF lower_is_better THEN pct.n < 0 ELSE pct.n > 0
        color == IF positive_outcome THEN GREEN ELSE RED
        arrow == IF pct.n > 0 THEN UP ELSE DOWN
    IN  Span(color, arrow \o " " \o FormatFixed(RAbs(pct), 2) \o "%")

\* the up arrow for pct >= 0
trend_badge_up_on_zero(current, previous, lower_is_better) ==
    IF previous.kind = "None" \/ isna(previous) \/ previous.n = 0 THEN NoData
    ELSE IF current.kind = "None" \/ isna(current) THEN NoData
    ELSE
    LET pct == RMul(RDiv(RSub(current, previous), RAbs(previous)), Int2Num(100))
        positive_outcome == IF lower_is_better THEN pct.n < 0 ELSE pct.n > 0
        color == IF positive_outcome THEN GREEN ELSE RED
        arrow == IF pct.n >= 0 THEN UP ELSE DOWN
    IN  Span(color, arrow \o " " \o FormatFixed(RAbs(pct), 2) \o "%")

trend_badge(current, previous, lower_is_better) ==
    IF previous.kind = "None" \/ isna(previous) \/ previous.n = 0 THEN NoData
    ELSE IF current.kind = "None" \/ isna(current) THEN NoData
    ELSE
    LET pct == RMul(RDiv(RSub(current, previous), RAbs(previous)), Int2Num(100))
        positive_outcome == IF lower_is_better THEN pct.n < 0 ELSE pct.n > 0
        color == IF positive_outcome THEN GREEN ELSE RED
        arrow == IF pct.n > 0 THEN UP ELSE DOWN
    IN  Span(color, arrow \o " " \o FormatFixed(RAbs(pct), 2) \o "%")

\* math.floor(math.log10(x)) for x > 0: the e with 10^e <= x < 10^(e+1)
RECURSIVE FloorLog10(_)
FloorLog10(x) ==
    IF RLt(x, Int2Num(1)) THEN FloorLog10(RMul(x, Int2Num(10))) - 1
    ELSE IF RLe(Int2Num(10), x) THEN FloorLog10(RDiv(x, Int2Num(10))) + 1
    ELSE 0

\* 10 ** e, an int for e >= 0 and a float below 1 otherwise
PowTen(e) == IF e >= 0 THEN Num(Pow10(e), 1) ELSE Num(1, Pow10(-e))

\* round(raw_step / magnitude) * magnitude
nice_step_round(raw_step, magnitude) ==
    RMul(Int2Num(RFloor(RAdd(RDiv(raw_step, magnitude), Num(1, 2)))), magnitude)

\* math.ceil(raw_step / magnitude) * magnitude
nice_step(raw_step, magnitude) ==
    RMul(Int2Num(RCeil(RDiv(raw_step, magnitude))), magnitude)

\* an exception leaves make_y_ticks: ZeroDivisionError for n = 1, the domain
\* error of math.log10 for a raw step <= 0
Raised == [raised |-> TRUE, ticks |-> <<>>, labels |-> <<>>]

Range0(n) == IF n > 0 THEN 0 .. (n - 1) ELSE {}

\* the degenerate case taken from `max_val < 0`
make_y_ticks_strict(max_val, n) ==
    IF max_val.n < 0 THEN
        [raised |-> FALSE, ticks |-> <<Int2Num(0)>>, labels |-> <<"$0">>]
    ELSE IF n - 1 = 0 THEN Raised
    ELSE
    LET raw_step == RDiv(max_val, Int2Num(n - 1))
    IN  IF raw_step.n <= 0 THEN Raised
        ELSE
        LET magnitude == PowTen(FloorLog10(raw_step))
            step == nice_step(raw_step, magnitude)
            ticks == [i \in 1 .. Cardinality(Range0(n)) |-> RMul(Int2Num(i - 1), step)]
            labels == [i \in 1 .. Len(ticks) |-> fmt_compact(ticks[i])]
        IN  [raised |-> FALSE, ticks |-> ticks, labels |-> labels]

make_y_ticks(max_val, n) ==
    IF max_val.n <= 0 THEN
        [raised |-> FALSE, ticks |-> <<Int2Num(0)>>, labels |-> <<"$0">>]
    ELSE IF n - 1 = 0 THEN Raised
    ELSE
    LET raw_step == RDiv(max_val, Int2Num(n - 1))
    IN  IF raw_step.n <= 0 THEN Raised
        ELSE
        LET magnitude == PowTen(FloorLog10(raw_step))
            step == nice_step(raw_step, magnitude)
            ticks == [i \in 1 .. Cardinality(Range0(n)) |-> RMul(Int2Num(i - 1), step)]
            labels == [i \in 1 .. Len(ticks) |-> fmt_compact(ticks[i])]
        IN  [raised |-> FALSE, ticks |-> ticks, labels |-> labels]

DEFAULT_N == 5

----------------------------------------------------------------------------
(* Helper calls: Init draws the arguments, the action applies the helper *)

FmtValues ==
    {Num(m * Pow10(e), 10) : m \in (-MaxMantissa) .. MaxMantissa, e \in 0 .. MaxExp10}
    \cup {Num(s * k, q) : s \in {-1, 1}, k \in {999, 1999, 999999, 1999999, 1040000, 1050000, 1250000}, q \in {1, 2}}

TrendValues ==
    {None, NaN} \cup {Num(10 * k, q) : k \in (-MaxTrendK) .. MaxTrendK, q \in {1, 3}}

TickMaxValues ==
    {Num(m * Pow10(e), 10) : m \in (-2) .. MaxTickMantissa, e \in 0 .. MaxTickExp10}
    \cup {Int2Num(437), Int2Num(2300000), Num(1, 25)}

Idle == [v |-> None]

DashInit ==
    /\ disk = {}
    /\ cache = <<>>
    /\ loads = 0
    /\ analysis_year = 0
    /\ analysis_month = 0
    /\ out = <<>>

HelperInit ==
    /\ pc = "ready"
    /\ ret = ""
    /\ \/ /\ fn = "fmt_compact"
          /\ \E v \in FmtValues : args = [v |-> v]
       \/ /\ fn = "trend_badge"
          /\ \E c \in TrendValues, p \in TrendValues, l \in BOOLEAN :
                args = [current |-> c, previous |-> p, lower_is_better |-> l]
       \/ /\ fn = "make_y_ticks"
          /\ \E m \in TickMaxValues, n \in 0 .. MaxN :
                args = [max_val |-> m, n |-> n]
    /\ DashInit

CallFmtCompact ==
    /\ pc = "ready" /\ fn = "fmt_compact"
    /\ ret' = fmt_compact(args.v)
    /\ pc' = "returned"
    /\ UNCHANGED <<fn, args, dashVars>>

CallTrendBadge ==
    /\ pc = "ready" /\ fn = "trend_badge"
    /\ ret' = trend_badge(args.current, args.previous, args.lower_is_better)
    /\ pc' = "returned"
    /\ UNCHANGED <<fn, args, dashVars>>

CallMakeYTicks ==
    /\ pc = "ready" /\ fn = "make_y_ticks"
    /\ ret' = make_y_ticks(args.max_val, args.n)
    /\ pc' = "returned"
    /\ UNCHANGED <<fn, args, dashVars>>

HelperNext == CallFmtCompact \/ CallTrendBadge \/ CallMakeYTicks

HelperSpec == HelperInit /\ [][HelperNext]_vars

----------------------------------------------------------------------------
(* The data set.  data_loader and business_metrics are imported by the      *)
(* script; their operators below follow the specification's contracts.      *)

OrderIds == 1 .. MaxOrders
Years == {2022, 2023}
Months == {1, 2, 3}
ALL_MONTHS == 0
DEFAULT_YEAR == 2023

\* the prices of the items of order o
ItemPrices(o) == {100 * o, 50}

\* an order: purchase year and month, status and days to delivery (NaN when
\* the delivery timestamp is missing)
Orders ==
    [year : Years, month : Months, order_status : {"delivered"},
     delivery_speed : {NaN, Int2Num(3)}]
    \cup
    [year : Years, month : Months, order_status : {"canceled"},
     delivery_speed : {NaN}]

Absent == [year |-> 0, month |-> 0, order_status |-> "absent", delivery_speed |-> NaN]

\* the sales table: one row per item of each order
SalesRows(orders) ==
    UNION {{[order_id |-> o, price |-> pr, year |-> orders[o].year,
             month |-> orders[o].month, order_status |-> orders[o].order_status,
             delivery_speed |-> orders[o].delivery_speed] : pr \in ItemPrices(o)}
           : o \in {x \in OrderIds : orders[x] # Absent}}

RECURSIVE SumPrice(_)
SumPrice(rows) ==
    IF rows = {} THEN 0
    ELSE LET r == CHOOSE x \in rows : TRUE
         IN  r.price + SumPrice(rows \ {r})

\* the ascending sequence of a finite set of integers
RECURSIVE Sorted(_)
Sorted(S) ==
    IF S = {} THEN <<>>
    ELSE LET m == CHOOSE x \in S : \A y \in S : x <= y
         IN  <<m>> \o Sorted(S \ {m})

filter_by_period(df, year, month) ==
    {r \in df : r.year = year /\ (month = ALL_MONTHS \/ r.month = month)}

\* adds the delivery_speed column, which the rows of the model already carry
calculate_delivery_speed(df) == df

calculate_revenue(df) == Int2Num(SumPrice(df))

calculate_order_count(df) == Cardinality({r.order_id : r \in df})

calculate_avg_order_value(df) ==
    IF calculate_order_count(df) = 0 THEN NaN
    ELSE RDiv(calculate_revenue(df), Int2Num(calculate_order_count(df)))

MonthlyRevenue(df, m) == Int2Num(SumPrice({r \in df : r.month = m}))

\* percentage change of monthly revenue between consecutive present months;
\* the first present month has no prior month: NaN
calculate_mom_growth(df) ==
    LET present == Sorted({r.month : r \in df})
    IN  [i \in 1 .. Len(present) |->
            IF i = 1 THEN NaN
            ELSE LET prev == MonthlyRevenue(df, present[i - 1])
                     cur == MonthlyRevenue(df, present[i])
                 IN  RMul(RDiv(RSub(cur, prev), prev), Int2Num(100))]

\* Series.mean(): the mean of the entries that are not NaN, NaN when none is
RECURSIVE SumSeq(_)
SumSeq(q) == IF q = <<>> THEN Int2Num(0) ELSE RAdd(Head(q), SumSeq(Tail(q)))

NotNa(x) == ~isna(x)

dropna(series) == SelectSeq(series, NotNa)

mean(series) ==
    IF dropna(series) = <<>> THEN NaN
    ELSE RDiv(SumSeq(dropna(series)), Int2Num(Len(dropna(series))))

RECURSIVE SpeedSeq(_)
SpeedSeq(rows) ==
    IF rows = {} THEN <<>>
    ELSE LET r == CHOOSE x \in rows : TRUE
         IN  <<r.delivery_speed>> \o SpeedSeq(rows \ {r})

\* the largest monthly revenue of df, 0 for an empty df
MaxMonthly(df) ==
    IF df = {} THEN Int2Num(0)
    ELSE LET ms == {r.month : r \in df}
             top == CHOOSE m \in ms : \A k \in ms : RLe(MonthlyRevenue(df, k), MonthlyRevenue(df, m))
         IN  MonthlyRevenue(df, top)

RMax(a, b) == IF RLt(a, b) THEN b ELSE a

----------------------------------------------------------------------------
(* The script *)

CacheMiss == <<>>

\* get_base_data without @st.cache_data: the body runs on every call
get_base_data_uncached(c, l, d) ==
    [value |-> [sales_df |-> d], cache |-> [sales_df |-> d], loads |-> l + 1]

\* @st.cache_data get_base_data(): the body runs on a miss and its result is
\* stored; a hit returns the stored result
get_base_data(c, l, d) ==
    IF c = CacheMiss
    THEN [value |-> [sales_df |-> d], cache |-> [sales_df |-> d], loads |-> l + 1]
    ELSE [value |-> c, cache |-> c, loads |-> l]

\* the sum of the defined entries over the length of the whole series
avg_mom_per_entry(mom_series) ==
    IF dropna(mom_series) # <<>>
    THEN RDiv(SumSeq(dropna(mom_series)), Int2Num(Len(mom_series)))
    ELSE Int2Num(0)

\* avg_mom = mom_series.mean() if not mom_series.dropna().empty else 0.0
avg_mom_of(mom_series) ==
    IF dropna(mom_series) # <<>> THEN mean(mom_series) ELSE Int2Num(0)

\* the previous values computed whether or not the comparison subset is empty
has_comparison_always(comparison_df) == TRUE

\* has_comparison = not comparison_df.empty
has_comparison_of(comparison_df) == comparison_df # {}

\* the script stops with an exception: the Year select box has no option
\* (no delivered row) and returns None, and None - 1 raises
Failed == [failed |-> TRUE]

AvailableYears(delivered) == {r.year : r \in delivered}

\* one run of the script below the select boxes, lines 193 - 459
Script(delivered, year, month) ==
    LET comparison_year == year - 1
        current_df == calculate_delivery_speed(filter_by_period(delivered, year, month))
        comparison_df == calculate_delivery_speed(filter_by_period(delivered, comparison_year, month))
        has_comparison == has_comparison_of(comparison_df)
        revenue == calculate_revenue(current_df)
        prev_rev == IF has_comparison THEN calculate_revenue(comparison_df) ELSE None
        aov == calculate_avg_order_value(current_df)
        prev_aov == IF has_comparison THEN calculate_avg_order_value(comparison_df) ELSE None
        orders == Int2Num(calculate_order_count(current_df))
        prev_orders == IF has_comparison THEN Int2Num(calculate_order_count(comparison_df)) ELSE None
        mom_series == calculate_mom_growth(current_df)
        avg_mom == avg_mom_of(mom_series)
        max_rev == RMax(MaxMonthly(current_df),
                        IF has_comparison THEN MaxMonthly(comparison_df) ELSE Int2Num(0))
        y == make_y_ticks(max_rev, DEFAULT_N)
        avg_delivery == mean(SpeedSeq(current_df))
        prev_delivery == IF has_comparison THEN mean(SpeedSeq(comparison_df)) ELSE None
    IN  [failed |-> FALSE,
         comparison_year |-> comparison_year,
         has_comparison |-> has_comparison,
         revenue |-> revenue, prev_rev |-> prev_rev,
         aov |-> aov, prev_aov |-> prev_aov,
         orders |-> orders, prev_orders |-> prev_orders,
         mom_series |-> mom_series, avg_mom |-> avg_mom,
         avg_delivery |-> avg_delivery, prev_delivery |-> prev_delivery,
         revenue_value |-> fmt_compact(revenue),
         aov_display |-> IF ~isna(aov) THEN fmt_compact(aov) ELSE DASH,
         revenue_trend |-> trend_badge(revenue, prev_rev, FALSE),
         aov_trend |-> trend_badge(aov, prev_aov, FALSE),
         orders_trend |-> trend_badge(orders, prev_orders, FALSE),
         delivery_trend |-> trend_badge(avg_delivery, prev_delivery, TRUE),
         yticks |-> y.ticks, ytick_labels |-> y.labels]

Init ==
    /\ fn = "none" /\ args = Idle /\ pc = "ready" /\ ret = ""
    /\ \E orders \in [OrderIds -> Orders \cup {Absent}] : disk = SalesRows(orders)
    /\ cache = CacheMiss
    /\ loads = 0
    /\ analysis_year = 0
    /\ analysis_month = ALL_MONTHS
    /\ out = <<>>

\* a run of the script with the select boxes at (sel_year, sel_month)
Run(sel_year, sel_month) ==
    LET got == get_base_data(cache, loads, disk)
        sales_df == got.value.sales_df
        delivered == {r \in sales_df : r.order_status = "delivered"}
    IN  /\ cache' = got.cache
        /\ loads' = got.loads
        /\ analysis_month' = sel_month
        /\ IF AvailableYears(delivered) = {}
           THEN /\ analysis_year' = 0
                /\ out' = Failed
           ELSE /\ sel_year \in AvailableYears(delivered)
                /\ analysis_year' = sel_year
                /\ out' = Script(delivered, sel_year, sel_month)
        /\ UNCHANGED <<disk, helperVars>>

\* the first run of a session: the Year box defaults to 2023 when it is an
\* option and to the most recent year otherwise, the Month box to "All Months"
FirstRun ==
    /\ out = <<>>
    /\ LET years == {r.year : r \in {x \in disk : x.order_status = "delivered"}}
           default == IF DEFAULT_YEAR \in years THEN DEFAULT_YEAR
                      ELSE IF years = {} THEN 0
                      ELSE CHOOSE y \in years : \A z \in years : z <= y
       IN  Run(default, ALL_MONTHS)

\* the user changes a select box: Streamlit runs the script again
Rerun ==
    /\ out # <<>>
    /\ \E sel_year \in Years \cup {0}, sel_month \in Months \cup {ALL_MONTHS} :
          Run(sel_year, sel_month)

Next == FirstRun \/ Rerun

Spec == Init /\ [][Next]_vars

----------------------------------------------------------------------------
(* Properties of the helpers, checked under HelperSpec *)

Returned(f) == pc = "returned" /\ fn = f

Defined(x) == x.kind = "num"

\* the integers nearest to the non-negative rational x (two of them on a tie)
NearestInts(x) ==
    {h \in {RFloor(x), RFloor(x) + 1} : 2 * Abs(h * x.d - x.n) <= x.d}

TwoDigits(i) == ToString(i \div 10) \o ToString(i % 10)

\* the texts "$<sign><mantissa><tier>" the three tiers allow for magnitude a >= 0
TierTexts(a, sign) ==
    IF a.n >= 1000000 * a.d THEN
        LET m == RDiv(a, Int2Num(1000000))
        IN  IF m.d = 1 THEN {"$" \o sign \o ToString(m.n) \o "M"}
            ELSE {"$" \o sign \o ToString(t \div 10) \o "." \o ToString(t % 10) \o "M" :
                    t \in NearestInts(RMul(m, Int2Num(10)))}
    ELSE IF a.n >= 1000 * a.d THEN
        {"$" \o sign \o ToString(k) \o "K" : k \in NearestInts(RDiv(a, Int2Num(1000)))}
    ELSE {"$" \o sign \o ToString(k) : k \in NearestInts(a)}

\* (current - previous) / |previous| * 100
PctChange(c, p) == RMul(RDiv(RSub(c, p), RAbs(p)), Int2Num(100))

\* |pct| with two decimals and the percent sign
PctTexts(pct) ==
    {ToString(h \div 100) \o "." \o TwoDigits(h % 100) \o "%" :
        h \in NearestInts(RMul(RAbs(pct), Int2Num(100)))}

NoDataCase(c, p) == ~Defined(p) \/ p.n = 0 \/ ~Defined(c)

\* C1: trend_badge returns the grey dash span, with no arrow and no
\* percentage, whenever previous is None, NaN or 0 or current is None or NaN,
\* whatever the other argument and the flag are; in every other case it
\* returns an arrow followed by a percentage.
C1_NoDataIndicator ==
    Returned("trend_badge") =>
        LET c == args.current
            p == args.previous
        IN  IF NoDataCase(c, p)
            THEN ret = "<span style=\"color:#6b7280\">&mdash;</span>"
            ELSE \E color \in {GREEN, RED}, arrow \in {UP, DOWN}, text \in PctTexts(PctChange(c, p)) :
                    ret = Span(color, arrow \o " " \o text)

C1_Witness ==
    /\ Returned("trend_badge")
    /\ Defined(args.current) /\ args.current.n # 0
    /\ Defined(args.previous) /\ args.previous.n = 0
    /\ args.lower_is_better
    /\ ret = NoData

\* C2: for defined current and defined non-zero previous, with
\* pct = (current - previous) / |previous| * 100, the badge shows the up arrow
\* exactly when pct > 0 and the down arrow otherwise, prints |pct| with two
\* decimals, and is green when pct > 0 without lower_is_better or pct < 0 with
\* it, red otherwise; trend(110, 100, False) is green, up, 10.00% and
\* trend(90, 100, True) is green, down, 10.00%.
C2_TrendClassification ==
    /\ trend_badge(Int2Num(110), Int2Num(100), FALSE)
          = "<span style=\"color:#16a34a\">&uarr; 10.00%</span>"
    /\ trend_badge(Int2Num(90), Int2Num(100), TRUE)
          = "<span style=\"color:#16a34a\">&darr; 10.00%</span>"
    /\ Returned("trend_badge") /\ ~NoDataCase(args.current, args.previous) =>
        LET pct == PctChange(args.current, args.previous)
            l == args.lower_is_better
            favourable == (pct.n > 0 /\ ~l) \/ (pct.n < 0 /\ l)
            color == IF favourable THEN GREEN ELSE RED
            arrow == IF pct.n > 0 THEN UP ELSE DOWN
        IN  \E text \in PctTexts(pct) : ret = Span(color, arrow \o " " \o text)

C2_Witness ==
    /\ Returned("trend_badge")
    /\ args.current = Int2Num(90) /\ args.previous = Int2Num(-100)
    /\ ~args.lower_is_better
    /\ ret = "<span style=\"color:#16a34a\">&uarr; 190.00%</span>"

\* C3: for every non-negative v, fmt_compact picks one tier by magnitude:
\* v >= 1,000,000 gives "$<v/1e6>M" with one decimal, dropped when v/1e6 is an
\* integer; 1,000 <= v < 1,000,000 gives "$<v/1e3>K" rounded to an integer;
\* v < 1,000 gives "$<v>" rounded to an integer.  fmt(2_300_000) = "$2.3M",
\* fmt(1_000_000) = "$1M", fmt(45_000) = "$45K", fmt(7) = "$7".
C3_CompactTiers ==
    /\ fmt_compact(Int2Num(2300000)) = "$2.3M"
    /\ fmt_compact(Int2Num(1000000)) = "$1M"
    /\ fmt_compact(Int2Num(45000)) = "$45K"
    /\ fmt_compact(Int2Num(7)) = "$7"
    /\ Returned("fmt_compact") /\ args.v.n >= 0 => ret \in TierTexts(args.v, "")

C3_Witness ==
    /\ Returned("fmt_compact")
    /\ args.v = Num(2500000, 1)
    /\ ret = "$2.5M"

\* C9 as stated: for every negative v the tier is chosen from |v| and the
\* returned string holds no minus sign, so it is one of the minus-free texts
\* of that tier.
C9_NoMinusSign ==
    Returned("fmt_compact") /\ args.v.n < 0 => ret \in TierTexts(RAbs(args.v), "")

\* C9 (amended): for every negative v, fmt_compact chooses the M / K / plain
\* tier from |v| (the tier of -v) and prints the signed mantissa: the minus
\* sign is in the returned string, right after the dollar sign.
C9_MinusAfterDollar ==
    Returned("fmt_compact") /\ args.v.n < 0 => ret \in TierTexts(RAbs(args.v), "-")

C9_Witness ==
    /\ Returned("fmt_compact")
    /\ args.v = Int2Num(-2300000)
    /\ ret = "$-2.3M"

\* the tick count n >= 2 and max_val > 0 of the call
TickCase == Returned("make_y_ticks") /\ args.max_val.n > 0 /\ args.n >= 2

C5_DegenerateTicks ==
    Returned("make_y_ticks") /\ args.max_val.n <= 0 =>
        /\ ~ret.raised
        /\ ret.ticks = <<Int2Num(0)>>
        /\ ret.labels = <<"$0">>

C5_Witness ==
    /\ Returned("make_y_ticks")
    /\ args.max_val.n < 0 /\ args.n = 1
    /\ ~ret.raised /\ ret.ticks = <<Int2Num(0)>>

Other(color) == IF color = GREEN THEN RED ELSE GREEN

\* C10: when current = previous (defined, non-zero) the badge is not the
\* no-data indicator: it is the red down arrow with "0.00%", for both values
\* of lower_is_better.  For every other defined pair with previous # 0,
\* flipping lower_is_better flips green/red and keeps arrow and percentage.
C10_ZeroChangeAndFlip ==
    Returned("trend_badge") /\ ~NoDataCase(args.current, args.previous) =>
        LET c == args.current
            p == args.previous
            l == args.lower_is_better
        IN  IF c = p
            THEN /\ ret = "<span style=\"color:#dc2626\">&darr; 0.00%</span>"
                 /\ trend_badge(c, p, ~l) = ret
            ELSE \E color \in {GREEN, RED}, arrow \in {UP, DOWN}, text \in PctTexts(PctChange(c, p)) :
                    /\ ret = Span(color, arrow \o " " \o text)
                    /\ trend_badge(c, p, ~l) = Span(Other(color), arrow \o " " \o text)

C10_Witness ==
    /\ Returned("trend_badge")
    /\ args.current = Int2Num(100) /\ args.previous = Int2Num(100)
    /\ args.lower_is_better
    /\ ret = Span(RED, DOWN \o " 0.00%")

----------------------------------------------------------------------------
(* Properties of the script, checked under Spec *)

Ran == out # <<>>

\* the delivered rows of the comparison period of the last run
ComparisonRows ==
    {r \in disk : /\ r.order_status = "delivered"
                  /\ r.year = analysis_year - 1
                  /\ analysis_month \in {ALL_MONTHS, r.month}}

GreyDash == "<span style=\"color:#6b7280\">&mdash;</span>"

\* C6: for every selected (year, month) the comparison period is
\* (year - 1, same month); when its subset of delivered rows is empty, the
\* previous revenue, average order value, order count and average delivery
\* time are all None, so the four trend badges are the no-data indicator
\* whatever the current values are, and the run does not fail.
C6_AbsentComparison ==
    Ran /\ (\E r \in disk : r.order_status = "delivered") =>
        /\ ~out.failed
        /\ out.comparison_year = analysis_year - 1
        /\ ComparisonRows = {} =>
            /\ out.prev_rev = None /\ out.prev_aov = None
            /\ out.prev_orders = None /\ out.prev_delivery = None
            /\ out.revenue_trend = GreyDash /\ out.aov_trend = GreyDash
            /\ out.orders_trend = GreyDash /\ out.delivery_trend = GreyDash

C6_Witness ==
    /\ Ran /\ ~out.failed
    /\ analysis_year = 2023 /\ analysis_month = 2
    /\ ComparisonRows = {}
    /\ (\E r \in disk : r.order_status = "delivered" /\ r.year = 2022)
    /\ out.revenue.n > 0 /\ out.avg_delivery.kind = "num"
    /\ out.prev_rev = None /\ out.delivery_trend = GreyDash

RECURSIVE DefinedSum(_)
DefinedSum(q) ==
    IF q = <<>> THEN Int2Num(0)
    ELSE IF Head(q).kind = "num" THEN RAdd(Head(q), DefinedSum(Tail(q)))
    ELSE DefinedSum(Tail(q))

RECURSIVE DefinedCount(_)
DefinedCount(q) ==
    IF q = <<>> THEN 0
    ELSE (IF Head(q).kind = "num" THEN 1 ELSE 0) + DefinedCount(Tail(q))

C8_LoadedOnce ==
    /\ [](/\ loads <= 1
          /\ Ran => loads = 1 /\ cache = [sales_df |-> disk])
    /\ [][cache # CacheMiss => cache' = cache /\ loads' = loads]_vars

C8_Witness ==
    /\ Ran /\ ~out.failed
    /\ analysis_month # ALL_MONTHS
    /\ loads = 1
    /\ cache = [sales_df |-> disk] /\ disk # {}

====
